---- MODULE Spec2Model ----
(***************************************************************************)
(* Render pass descriptions of vulkano (framebuffer/traits.rs): the        *)
(* RenderPassDesc trait with its provided queries, the two compatibility   *)
(* checks, and the Subpass handle.                                         *)
(*                                                                         *)
(* Indices are 0-based as in the source; a TLA+ sequence is 1-based, so    *)
(* the element the source calls number n is seq[n + 1].                    *)
(***************************************************************************)
EXTENDS Integers, Sequences, FiniteSets, TLC

VARIABLES desc, handles, pending, last, iter, yielded

vars == <<desc, handles, pending, last, iter, yielded>>

(***************************************************************************)
(* Option<T>, and the outcome of a call that panics instead of returning.  *)
(***************************************************************************)
None == [tag |-> "None"]

Some(v) == [tag |-> "Some", val |-> v]

Panic(why) == [tag |-> "Panic", why |-> why]

IsSome(r) == r.tag = "Some"

IsPanic(r) == r.tag = "Panic"

\* Option::expect / Option::unwrap: the value, or a panic on None.
Expect(opt, why) == IF opt.tag = "None" THEN Panic(why) ELSE opt

\* Option::map, with a panic of the receiver or of the closure passing through.
\* f(v) is an outcome itself: Some(x) for a closure returning x, or a Panic.
OptionMap(opt, f(_)) == IF opt.tag = "Some" THEN f(opt.val) ELSE opt

(***************************************************************************)
(* Bounds of the model.                                                    *)
(***************************************************************************)
MaxAttachments == 2

MaxSubpasses == 2

MaxColor == 2

MaxDependencies == 2

(***************************************************************************)
(* Formats and their class (Format::ty), sample counts, image layouts.     *)
(***************************************************************************)
Formats == {"R8G8B8A8Unorm", "D16Unorm", "S8Uint", "D24Unorm_S8Uint"}

ty(format) ==
    CASE format = "D16Unorm" -> "Depth"
      [] format = "S8Uint" -> "Stencil"
      [] format = "D24Unorm_S8Uint" -> "DepthStencil"
      [] OTHER -> "Float"

SampleCounts == {1, 4}

ColorAttachmentOptimal == "ColorAttachmentOptimal"

DepthStencilAttachmentOptimal == "DepthStencilAttachmentOptimal"

DepthStencilReadOnlyOptimal == "DepthStencilReadOnlyOptimal"

DepthStencilLayouts == {DepthStencilAttachmentOptimal, DepthStencilReadOnlyOptimal}

(***************************************************************************)
(* The description structs.                                                *)
(***************************************************************************)
LayoutAttachmentDescription(format, samples) ==
    [format |-> format, samples |-> samples, load |-> "Clear", store |-> "Store",
     initial_layout |-> "Undefined", final_layout |-> ColorAttachmentOptimal]

LayoutPassDescription(color, depth_stencil, input, resolve, preserve) ==
    [color_attachments |-> color, depth_stencil |-> depth_stencil,
     input_attachments |-> input, resolve_attachments |-> resolve,
     preserve_attachments |-> preserve]

LayoutPassDependencyDescription(source_subpass, destination_subpass) ==
    [source_subpass |-> source_subpass, destination_subpass |-> destination_subpass,
     src_stages |-> "all_graphics", dst_stages |-> "all_graphics",
     src_access |-> "all", dst_access |-> "all", by_region |-> TRUE]

\* A type that implements RenderPassDesc by holding the three lists.
RenderPassDescOf(attachments, subpasses, dependencies) ==
    [attachments |-> attachments, subpasses |-> subpasses, dependencies |-> dependencies]

(***************************************************************************)
(* The required methods of RenderPassDesc.  Two kinds of implementers: a   *)
(* type that keeps the three lists, and a type that dereferences to an     *)
(* implementer (T: SafeDeref), whose methods forward to its target.  A     *)
(* list may hold Absent where an implementation that breaks the contract   *)
(* of the unsafe trait counts an item and returns None for it.             *)
(***************************************************************************)
Absent == [absent |-> TRUE]

ItemAt(list, num) ==
    IF num < Len(list) /\ list[num + 1] # Absent THEN Some(list[num + 1]) ELSE None

\* A pointer to the implementer target.
DerefOf(target) == [target |-> target]

IsDeref(D) == "target" \in DOMAIN D

RECURSIVE num_attachments(_), attachment(_, _), num_subpasses(_), subpass(_, _)
RECURSIVE num_dependencies(_), dependency(_, _)

Deref_num_attachments(self) == num_attachments(self.target)

Deref_attachment(self, num) == attachment(self.target, num)

Deref_num_subpasses(self) == num_subpasses(self.target)

\* subpass of the wrapper forwarding the number after num.
Deref_subpass_shifted(self, num) == subpass(self.target, num + 1)

Deref_subpass(self, num) == subpass(self.target, num)

Deref_num_dependencies(self) == num_dependencies(self.target)

Deref_dependency(self, num) == dependency(self.target, num)

num_attachments(D) == IF IsDeref(D) THEN Deref_num_attachments(D) ELSE Len(D.attachments)

attachment(D, num) == IF IsDeref(D) THEN Deref_attachment(D, num) ELSE ItemAt(D.attachments, num)

num_subpasses(D) == IF IsDeref(D) THEN Deref_num_subpasses(D) ELSE Len(D.subpasses)

subpass(D, num) == IF IsDeref(D) THEN Deref_subpass(D, num) ELSE ItemAt(D.subpasses, num)

num_dependencies(D) == IF IsDeref(D) THEN Deref_num_dependencies(D) ELSE Len(D.dependencies)

dependency(D, num) == IF IsDeref(D) THEN Deref_dependency(D, num) ELSE ItemAt(D.dependencies, num)

(***************************************************************************)
(* The iterators.  An iterator is its position num; next gives the new     *)
(* position and the item (Some, None, or the panic of expect).             *)
(***************************************************************************)
AttachmentsNext(D, num) ==
    IF num < num_attachments(D)
    THEN [num |-> num + 1,
          item |-> Expect(attachment(D, num), "Wrong RenderPassDesc implementation")]
    ELSE [num |-> num, item |-> None]

\* SubpassesNext with the bound test off by one.
SubpassesNextInclusive(D, num) ==
    IF num <= num_subpasses(D)
    THEN [num |-> num + 1,
          item |-> Expect(subpass(D, num), "Wrong RenderPassDesc implementation")]
    ELSE [num |-> num, item |-> None]

SubpassesNext(D, num) ==
    IF num < num_subpasses(D)
    THEN [num |-> num + 1,
          item |-> Expect(subpass(D, num), "Wrong RenderPassDesc implementation")]
    ELSE [num |-> num, item |-> None]

\* DependenciesNext ending the iteration at an item that is not returned.
DependenciesNextLenient(D, num) ==
    IF num < num_dependencies(D) /\ IsSome(dependency(D, num))
    THEN [num |-> num + 1, item |-> dependency(D, num)]
    ELSE [num |-> num, item |-> None]

DependenciesNext(D, num) ==
    IF num < num_dependencies(D)
    THEN [num |-> num + 1,
          item |-> Expect(dependency(D, num), "Wrong RenderPassDesc implementation")]
    ELSE [num |-> num, item |-> None]

\* attachments().skip(n).next(): next is called until n items were dropped
\* and one more was produced, or until it gives None or panics.
RECURSIVE AttachmentsSkipNext(_, _, _)
AttachmentsSkipNext(D, num, n) ==
    LET r == AttachmentsNext(D, num)
    IN  IF r.item.tag # "Some" \/ n = 0 THEN r.item
        ELSE AttachmentsSkipNext(D, r.num, n - 1)

RECURSIVE SubpassesSkipNext(_, _, _)
SubpassesSkipNext(D, num, n) ==
    LET r == SubpassesNext(D, num)
    IN  IF r.item.tag # "Some" \/ n = 0 THEN r.item
        ELSE SubpassesSkipNext(D, r.num, n - 1)

(***************************************************************************)
(* The provided methods of RenderPassDesc.  Each is                        *)
(* subpasses().skip(subpass_id).next() followed by map or and_then with the   *)
(* closure written out below it.                                           *)
(***************************************************************************)
\* len() as u32: the lists of this model are far shorter than 2^32.
num_color_attachments(D, subpass_id) ==
    OptionMap(SubpassesSkipNext(D, 0, subpass_id),
              LAMBDA p : Some(Len(p.color_attachments)))

\* The first Some among attachments().skip(a.0).next() over the references
\* refs[i..], as filter_map(..).next() finds it: a reference to no attachment
\* is passed over.
RECURSIVE FilterMapNext(_, _, _)
FilterMapNext(D, refs, i) ==
    IF i > Len(refs) THEN None
    ELSE LET a == AttachmentsSkipNext(D, 0, refs[i][1])
         IN  IF a.tag = "None" THEN FilterMapNext(D, refs, i + 1) ELSE a

num_samples(D, subpass_id) ==
    OptionMap(SubpassesSkipNext(D, 0, subpass_id),
              LAMBDA p :
                  LET chain == p.color_attachments \o
                               (IF IsSome(p.depth_stencil) THEN <<p.depth_stencil.val>>
                                ELSE <<>>)
                  IN  OptionMap(FilterMapNext(D, chain, 1), LAMBDA a : Some(a.samples)))

has_depth_stencil_attachment(D, subpass_id) ==
    OptionMap(SubpassesSkipNext(D, 0, subpass_id),
              LAMBDA p :
                  IF ~IsSome(p.depth_stencil) THEN Some(<<FALSE, FALSE>>)
                  ELSE LET atch_num == p.depth_stencil.val[1]
                           a == Expect(AttachmentsSkipNext(D, 0, atch_num), "unwrap")
                       IN  IF IsPanic(a) THEN a
                           ELSE CASE ty(a.val.format) = "Depth" -> Some(<<TRUE, FALSE>>)
                                  [] ty(a.val.format) = "Stencil" -> Some(<<FALSE, TRUE>>)
                                  [] ty(a.val.format) = "DepthStencil" -> Some(<<TRUE, TRUE>>)
                                  [] OTHER -> Panic("unreachable"))

has_depth(D, subpass_id) ==
    OptionMap(SubpassesSkipNext(D, 0, subpass_id),
              LAMBDA p :
                  IF ~IsSome(p.depth_stencil) THEN Some(FALSE)
                  ELSE LET atch_num == p.depth_stencil.val[1]
                           a == Expect(AttachmentsSkipNext(D, 0, atch_num), "unwrap")
                       IN  IF IsPanic(a) THEN a
                           ELSE CASE ty(a.val.format) = "Depth" -> Some(TRUE)
                                  [] ty(a.val.format) = "Stencil" -> Some(FALSE)
                                  [] ty(a.val.format) = "DepthStencil" -> Some(TRUE)
                                  [] OTHER -> Panic("unreachable"))

\* has_writable_depth without the test of the layout.
has_writable_depth_any_layout(D, subpass_id) ==
    OptionMap(SubpassesSkipNext(D, 0, subpass_id),
              LAMBDA p :
                  IF ~IsSome(p.depth_stencil) THEN Some(FALSE)
                  ELSE LET atch_num == p.depth_stencil.val[1]
                           a == Expect(AttachmentsSkipNext(D, 0, atch_num), "unwrap")
                       IN  IF IsPanic(a) THEN a
                           ELSE CASE ty(a.val.format) = "Depth" -> Some(TRUE)
                                  [] ty(a.val.format) = "Stencil" -> Some(FALSE)
                                  [] ty(a.val.format) = "DepthStencil" -> Some(TRUE)
                                  [] OTHER -> Panic("unreachable"))

has_writable_depth(D, subpass_id) ==
    OptionMap(SubpassesSkipNext(D, 0, subpass_id),
              LAMBDA p :
                  IF ~IsSome(p.depth_stencil) THEN Some(FALSE)
                  ELSE IF p.depth_stencil.val[2] = DepthStencilReadOnlyOptimal THEN Some(FALSE)
                  ELSE LET atch_num == p.depth_stencil.val[1]
                           a == Expect(AttachmentsSkipNext(D, 0, atch_num), "unwrap")
                       IN  IF IsPanic(a) THEN a
                           ELSE CASE ty(a.val.format) = "Depth" -> Some(TRUE)
                                  [] ty(a.val.format) = "Stencil" -> Some(FALSE)
                                  [] ty(a.val.format) = "DepthStencil" -> Some(TRUE)
                                  [] OTHER -> Panic("unreachable"))

\* has_stencil with the table of has_depth.
has_stencil_as_depth(D, subpass_id) ==
    OptionMap(SubpassesSkipNext(D, 0, subpass_id),
              LAMBDA p :
                  IF ~IsSome(p.depth_stencil) THEN Some(FALSE)
                  ELSE LET atch_num == p.depth_stencil.val[1]
                           a == Expect(AttachmentsSkipNext(D, 0, atch_num), "unwrap")
                       IN  IF IsPanic(a) THEN a
                           ELSE CASE ty(a.val.format) = "Depth" -> Some(TRUE)
                                  [] ty(a.val.format) = "Stencil" -> Some(FALSE)
                                  [] ty(a.val.format) = "DepthStencil" -> Some(TRUE)
                                  [] OTHER -> Panic("unreachable"))

has_stencil(D, subpass_id) ==
    OptionMap(SubpassesSkipNext(D, 0, subpass_id),
              LAMBDA p :
                  IF ~IsSome(p.depth_stencil) THEN Some(FALSE)
                  ELSE LET atch_num == p.depth_stencil.val[1]
                           a == Expect(AttachmentsSkipNext(D, 0, atch_num), "unwrap")
                       IN  IF IsPanic(a) THEN a
                           ELSE CASE ty(a.val.format) = "Depth" -> Some(FALSE)
                                  [] ty(a.val.format) = "Stencil" -> Some(TRUE)
                                  [] ty(a.val.format) = "DepthStencil" -> Some(TRUE)
                                  [] OTHER -> Panic("unreachable"))

\* has_writable_stencil true for a writable slot of any format.
has_writable_stencil_of_any_format(D, subpass_id) ==
    OptionMap(SubpassesSkipNext(D, 0, subpass_id),
              LAMBDA p :
                  IF ~IsSome(p.depth_stencil) THEN Some(FALSE)
                  ELSE IF p.depth_stencil.val[2] = DepthStencilReadOnlyOptimal THEN Some(FALSE)
                  ELSE LET atch_num == p.depth_stencil.val[1]
                           a == Expect(AttachmentsSkipNext(D, 0, atch_num), "unwrap")
                       IN  IF IsPanic(a) THEN a ELSE Some(TRUE))

has_writable_stencil(D, subpass_id) ==
    OptionMap(SubpassesSkipNext(D, 0, subpass_id),
              LAMBDA p :
                  IF ~IsSome(p.depth_stencil) THEN Some(FALSE)
                  ELSE IF p.depth_stencil.val[2] = DepthStencilReadOnlyOptimal THEN Some(FALSE)
                  ELSE LET atch_num == p.depth_stencil.val[1]
                           a == Expect(AttachmentsSkipNext(D, 0, atch_num), "unwrap")
                       IN  IF IsPanic(a) THEN a
                           ELSE CASE ty(a.val.format) = "Depth" -> Some(FALSE)
                                  [] ty(a.val.format) = "Stencil" -> Some(TRUE)
                                  [] ty(a.val.format) = "DepthStencil" -> Some(TRUE)
                                  [] OTHER -> Panic("unreachable"))

(***************************************************************************)
(* The two compatibility checks.  A method that returns a plain value      *)
(* yields Ok(value), or a Panic.                                           *)
(***************************************************************************)
Ok(v) == [tag |-> "Ok", val |-> v]

\* Option::unwrap.
Unwrap(opt) ==
    IF opt.tag = "Some" THEN Ok(opt.val)
    ELSE IF opt.tag = "None" THEN Panic("unwrap")
    ELSE opt

\* Vec::get.
VecGet(v, index) == IF index < Len(v) THEN Some(v[index + 1]) ELSE None

Continue == [tag |-> "Continue"]

\* for location in element.location.clone(), from location up to end
\* (a Range<u32>, end excluded) passing over a location without a slot.
RECURSIVE LocationsLoopLenient(_, _, _, _)
LocationsLoopLenient(D, pass_descr, location, end) ==
    IF location >= end THEN Continue
    ELSE LET slot == VecGet(pass_descr.color_attachments, location)
         IN  IF slot.tag = "None" THEN LocationsLoopLenient(D, pass_descr, location + 1, end)
             ELSE LET attachment_desc ==
                          Unwrap(AttachmentsSkipNext(D, 0, slot.val[1]))
                  IN  IF IsPanic(attachment_desc) THEN attachment_desc
                      ELSE LocationsLoopLenient(D, pass_descr, location + 1, end)

\* for location in element.location.clone(), from location up to end
\* (a Range<u32>, end excluded): Continue when the loop runs to its end.
RECURSIVE LocationsLoop(_, _, _, _)
LocationsLoop(D, pass_descr, location, end) ==
    IF location >= end THEN Continue
    ELSE LET slot == VecGet(pass_descr.color_attachments, location)
         IN  IF slot.tag = "None" THEN Ok(FALSE)
             ELSE LET attachment_id == slot.val[1]
                      attachment_desc ==
                          Unwrap(AttachmentsSkipNext(D, 0, attachment_id))
                  IN  IF IsPanic(attachment_desc) THEN attachment_desc
                      ELSE LocationsLoop(D, pass_descr, location + 1, end)

\* for element in other.elements(), from the element number e on.
RECURSIVE ElementsLoop(_, _, _, _)
ElementsLoop(D, pass_descr, other, e) ==
    IF e > Len(other) THEN Ok(TRUE)
    ELSE LET r == LocationsLoop(D, pass_descr, other[e].location.start,
                                other[e].location.end)
         IN  IF r = Continue THEN ElementsLoop(D, pass_descr, other, e + 1) ELSE r

\* RenderPassSubpassInterface::is_compatible_with
subpass_is_compatible_with(self, subpass_id, other) ==
    LET pass_descr == SubpassesSkipNext(self, 0, subpass_id)
    IN  IF pass_descr.tag = "None" THEN Ok(FALSE)
        ELSE IF IsPanic(pass_descr) THEN pass_descr
        ELSE ElementsLoop(self, pass_descr.val, other, 1)

\* LayoutAttachmentDescription::is_compatible_with
attachment_is_compatible_with(self, other) ==
    self.format = other.format /\ self.samples = other.samples

\* RenderPassCompatible::is_compatible_with asking for fewer attachments
\* in self than in other.
render_pass_is_compatible_with_fewer(self, other) ==
    Ok(num_attachments(self) < num_attachments(other))

\* RenderPassCompatible::is_compatible_with: the comparison of the
\* attachments is commented out, and what is left returns true.
render_pass_is_compatible_with(self, other) == Ok(TRUE)

(***************************************************************************)
(* Subpass<L>: a render pass and the number of one of its subpasses.       *)
(***************************************************************************)
\* Subpass::from accepting the number one past the last subpass.
Subpass_from_inclusive(render_pass, id) ==
    IF id <= num_subpasses(render_pass)
    THEN Some([render_pass |-> render_pass, subpass_id |-> id])
    ELSE None

Subpass_from(render_pass, id) ==
    IF id < num_subpasses(render_pass)
    THEN Some([render_pass |-> render_pass, subpass_id |-> id])
    ELSE None

Subpass_num_color_attachments(self) ==
    Unwrap(num_color_attachments(self.render_pass, self.subpass_id))

Subpass_has_depth(self) == Unwrap(has_depth(self.render_pass, self.subpass_id))

Subpass_has_writable_depth(self) ==
    Unwrap(has_writable_depth(self.render_pass, self.subpass_id))

Subpass_has_stencil(self) == Unwrap(has_stencil(self.render_pass, self.subpass_id))

Subpass_has_writable_stencil(self) ==
    Unwrap(has_writable_stencil(self.render_pass, self.subpass_id))

\* has_color_or_depth_stencil_attachment looking at the depth/stencil pair only.
Subpass_has_depth_stencil_only(self) ==
    LET pair == Unwrap(has_depth_stencil_attachment(self.render_pass, self.subpass_id))
    IN  IF IsPanic(pair) THEN pair ELSE Ok(pair.val # <<FALSE, FALSE>>)

\* a || b: b is evaluated only when a is false.
Subpass_has_color_or_depth_stencil_attachment(self) ==
    LET n == Subpass_num_color_attachments(self)
    IN  IF IsPanic(n) THEN n
        ELSE IF n.val >= 1 THEN Ok(TRUE)
        ELSE LET pair == Unwrap(has_depth_stencil_attachment(self.render_pass,
                                                             self.subpass_id))
             IN  IF IsPanic(pair) THEN pair ELSE Ok(pair.val # <<FALSE, FALSE>>)

\* num_samples of the handle asking for the first subpass.
Subpass_num_samples_of_first(self) == num_samples(self.render_pass, 0)

Subpass_num_samples(self) == num_samples(self.render_pass, self.subpass_id)

Subpass_render_pass(self) == self.render_pass

\* index() answering the number of subpasses left after this one.
Subpass_index_from_end(self) == num_subpasses(self.render_pass) - 1 - self.subpass_id

Subpass_index(self) == self.subpass_id

Subpass_into(self) == <<self.render_pass, self.subpass_id>>

(***************************************************************************)
(* Descriptions the caller can build.  The structs have public fields and  *)
(* nothing validates them, so a subpass may refer to an attachment that    *)
(* does not exist (index num_attachments or more) or name a color format   *)
(* as its depth/stencil attachment.                                        *)
(***************************************************************************)
SeqsUpTo(S, n) == UNION {[1..k -> S] : k \in 0..n}

AttachmentIds == 0..MaxAttachments

ColorRefs == {<<a, ColorAttachmentOptimal>> : a \in AttachmentIds}

DepthStencilRefs ==
    {None} \cup {Some(<<a, l>>) : a \in AttachmentIds, l \in DepthStencilLayouts}

EmptyPass == LayoutPassDescription(<<>>, None, <<>>, <<>>, <<>>)

\* Every list of at most MaxSubpasses subpasses in which one subpass is drawn
\* from S and the others are empty: every query reads one subpass only, and
\* the others make its position in the list count.
PassLists(S) ==
    {<<>>} \cup UNION {{[i \in 1..n |-> IF i = k THEN p ELSE EmptyPass] : k \in 1..n, p \in S}
                       : n \in 1..MaxSubpasses}

\* Subpasses whose input, resolve and preserve lists are not empty.
OtherPasses ==
    {LayoutPassDescription(c, d, <<<<0, ColorAttachmentOptimal>>>>,
                           <<<<1, ColorAttachmentOptimal>>>>, <<0>>) :
        c \in SeqsUpTo({<<0, ColorAttachmentOptimal>>}, 1),
        d \in {None, Some(<<0, DepthStencilAttachmentOptimal>>)}}

\* The depth/stencil slot in full, over attachments of every format class.
DepthPasses ==
    {LayoutPassDescription(c, d, <<>>, <<>>, <<>>) :
        c \in SeqsUpTo({<<0, ColorAttachmentOptimal>>}, 1), d \in DepthStencilRefs}

DepthDescs ==
    {RenderPassDescOf(a, p, <<>>) :
        a \in SeqsUpTo({LayoutAttachmentDescription(f, 1) : f \in Formats}, MaxAttachments),
        p \in PassLists(DepthPasses \cup OtherPasses)}

\* The color list in full, over attachments of every sample count.
SamplePasses ==
    {LayoutPassDescription(c, d, <<>>, <<>>, <<>>) :
        c \in SeqsUpTo(ColorRefs, MaxColor),
        d \in {None} \cup {Some(<<a, DepthStencilAttachmentOptimal>>) : a \in AttachmentIds}}

SampleDescs ==
    {RenderPassDescOf(a, p, <<>>) :
        a \in SeqsUpTo({LayoutAttachmentDescription("D24Unorm_S8Uint", n) : n \in SampleCounts},
                       MaxAttachments),
        p \in PassLists(SamplePasses \cup OtherPasses)}

\* The subpass numbers a caller passes: those of the bound, and one more.
SubpassIds == 0..MaxSubpasses

NoCall == [op |-> "none"]

Call(op, args, result) == [op |-> op, args |-> args, result |-> result]

\* No iterator was made.
NoIter == [kind |-> "none"]

(***************************************************************************)
(* The derived queries as operations: the caller holds a description and   *)
(* the subpass number for one query (pending), and makes the call.         *)
(***************************************************************************)
DerivedQueries ==
    {"num_color_attachments", "num_samples", "has_depth_stencil_attachment", "has_depth",
     "has_writable_depth", "has_stencil", "has_writable_stencil"}

InitDesc ==
    /\ desc \in DepthDescs \cup SampleDescs
    /\ handles = {}
    /\ pending \in {[op |-> q, args |-> <<s>>] : q \in DerivedQueries, s \in SubpassIds}
    /\ last = NoCall
    /\ iter = NoIter
    /\ yielded = <<>>

NumColorAttachments ==
    /\ pending.op = "num_color_attachments"
    /\ last' = Call(pending.op, pending.args, num_color_attachments(desc, pending.args[1]))
    /\ UNCHANGED <<desc, handles, pending, iter, yielded>>

NumSamples ==
    /\ pending.op = "num_samples"
    /\ last' = Call(pending.op, pending.args, num_samples(desc, pending.args[1]))
    /\ UNCHANGED <<desc, handles, pending, iter, yielded>>

HasDepthStencilAttachment ==
    /\ pending.op = "has_depth_stencil_attachment"
    /\ last' = Call(pending.op, pending.args,
                    has_depth_stencil_attachment(desc, pending.args[1]))
    /\ UNCHANGED <<desc, handles, pending, iter, yielded>>

HasDepth ==
    /\ pending.op = "has_depth"
    /\ last' = Call(pending.op, pending.args, has_depth(desc, pending.args[1]))
    /\ UNCHANGED <<desc, handles, pending, iter, yielded>>

HasWritableDepth ==
    /\ pending.op = "has_writable_depth"
    /\ last' = Call(pending.op, pending.args, has_writable_depth(desc, pending.args[1]))
    /\ UNCHANGED <<desc, handles, pending, iter, yielded>>

HasStencil ==
    /\ pending.op = "has_stencil"
    /\ last' = Call(pending.op, pending.args, has_stencil(desc, pending.args[1]))
    /\ UNCHANGED <<desc, handles, pending, iter, yielded>>

HasWritableStencil ==
    /\ pending.op = "has_writable_stencil"
    /\ last' = Call(pending.op, pending.args, has_writable_stencil(desc, pending.args[1]))
    /\ UNCHANGED <<desc, handles, pending, iter, yielded>>

NextDesc ==
    \/ NumColorAttachments
    \/ NumSamples
    \/ HasDepthStencilAttachment
    \/ HasDepth
    \/ HasWritableDepth
    \/ HasStencil
    \/ HasWritableStencil

SpecDesc == InitDesc /\ [][NextDesc]_vars

(***************************************************************************)
(* Subpass handles: the caller holds a description and a subpass number    *)
(* (pending), builds the handle with Subpass::from, reads it through its   *)
(* methods, and gives it away with into().                                 *)
(***************************************************************************)
InitSubpass ==
    /\ desc \in DepthDescs
    /\ handles = {}
    /\ pending \in {[op |-> "from", args |-> <<id>>] : id \in SubpassIds}
    /\ last = NoCall
    /\ iter = NoIter
    /\ yielded = <<>>

SubpassFrom ==
    LET r == Subpass_from(desc, pending.args[1])
    IN  /\ handles' = IF IsSome(r) THEN handles \cup {r.val} ELSE handles
        /\ last' = Call(pending.op, pending.args, r)
        /\ UNCHANGED <<desc, pending, iter, yielded>>

SubpassNumColorAttachments ==
    \E h \in handles :
        /\ last' = Call("Subpass::num_color_attachments", <<h>>, Subpass_num_color_attachments(h))
        /\ UNCHANGED <<desc, handles, pending, iter, yielded>>

SubpassHasDepth ==
    \E h \in handles :
        /\ last' = Call("Subpass::has_depth", <<h>>, Subpass_has_depth(h))
        /\ UNCHANGED <<desc, handles, pending, iter, yielded>>

SubpassHasWritableDepth ==
    \E h \in handles :
        /\ last' = Call("Subpass::has_writable_depth", <<h>>, Subpass_has_writable_depth(h))
        /\ UNCHANGED <<desc, handles, pending, iter, yielded>>

SubpassHasStencil ==
    \E h \in handles :
        /\ last' = Call("Subpass::has_stencil", <<h>>, Subpass_has_stencil(h))
        /\ UNCHANGED <<desc, handles, pending, iter, yielded>>

SubpassHasWritableStencil ==
    \E h \in handles :
        /\ last' = Call("Subpass::has_writable_stencil", <<h>>, Subpass_has_writable_stencil(h))
        /\ UNCHANGED <<desc, handles, pending, iter, yielded>>

SubpassHasColorOrDepthStencilAttachment ==
    \E h \in handles :
        /\ last' = Call("Subpass::has_color_or_depth_stencil_attachment", <<h>>,
                        Subpass_has_color_or_depth_stencil_attachment(h))
        /\ UNCHANGED <<desc, handles, pending, iter, yielded>>

SubpassNumSamples ==
    \E h \in handles :
        /\ last' = Call("Subpass::num_samples", <<h>>, Subpass_num_samples(h))
        /\ UNCHANGED <<desc, handles, pending, iter, yielded>>

SubpassRenderPass ==
    \E h \in handles :
        /\ last' = Call("Subpass::render_pass", <<h>>, Ok(Subpass_render_pass(h)))
        /\ UNCHANGED <<desc, handles, pending, iter, yielded>>

SubpassIndex ==
    \E h \in handles :
        /\ last' = Call("Subpass::index", <<h>>, Ok(Subpass_index(h)))
        /\ UNCHANGED <<desc, handles, pending, iter, yielded>>

\* into(self) takes the handle by value.
SubpassInto ==
    \E h \in handles :
        /\ last' = Call("Subpass::into", <<h>>, Ok(Subpass_into(h)))
        /\ handles' = handles \ {h}
        /\ UNCHANGED <<desc, pending, iter, yielded>>

\* Subpass<L> is Copy and Clone: the copy is the same pair.
SubpassClone ==
    \E h \in handles :
        /\ last' = Call("Subpass::clone", <<h>>, Ok(h))
        /\ handles' = handles \cup {h}
        /\ UNCHANGED <<desc, pending, iter, yielded>>

NextSubpass ==
    \/ SubpassFrom
    \/ SubpassClone
    \/ SubpassNumColorAttachments
    \/ SubpassHasDepth
    \/ SubpassHasWritableDepth
    \/ SubpassHasStencil
    \/ SubpassHasWritableStencil
    \/ SubpassHasColorOrDepthStencilAttachment
    \/ SubpassNumSamples
    \/ SubpassRenderPass
    \/ SubpassIndex
    \/ SubpassInto

SpecSubpass == InitSubpass /\ [][NextSubpass]_vars

(***************************************************************************)
(* Subpass handles over the descriptions that are well formed: every       *)
(* reference of every subpass is to an attachment that exists, and the     *)
(* depth/stencil slot names an attachment of a depth and/or stencil        *)
(* format.  Attachments of every format class and of every sample count.   *)
(***************************************************************************)
\* Every attachment a subpass of the description refers to exists.
RefsExist(D) ==
    \A k \in 1..Len(D.subpasses) :
        LET p == D.subpasses[k]
        IN  /\ \A i \in 1..Len(p.color_attachments) :
                    p.color_attachments[i][1] < Len(D.attachments)
            /\ IsSome(p.depth_stencil) => p.depth_stencil.val[1] < Len(D.attachments)
            /\ \A i \in 1..Len(p.input_attachments) :
                    p.input_attachments[i][1] < Len(D.attachments)
            /\ \A i \in 1..Len(p.resolve_attachments) :
                    p.resolve_attachments[i][1] < Len(D.attachments)
            /\ \A i \in 1..Len(p.preserve_attachments) :
                    p.preserve_attachments[i] < Len(D.attachments)

WellFormed(D) ==
    /\ RefsExist(D)
    /\ \A k \in 1..Len(D.subpasses) :
            LET p == D.subpasses[k]
            IN  IsSome(p.depth_stencil) =>
                    ty(D.attachments[p.depth_stencil.val[1] + 1].format)
                        \in {"Depth", "Stencil", "DepthStencil"}

HandleDescs == {D \in DepthDescs \cup SampleDescs : WellFormed(D)}

InitHandle ==
    /\ desc \in HandleDescs
    /\ handles = {}
    /\ pending \in {[op |-> "from", args |-> <<id>>] : id \in SubpassIds}
    /\ last = NoCall
    /\ iter = NoIter
    /\ yielded = <<>>

SpecHandle == InitHandle /\ [][NextSubpass]_vars

(***************************************************************************)
(* The iterators as operations: the caller makes one of the three          *)
(* iterators of a description and calls next on it until it panics, and    *)
(* as often as it likes after it returned None.  yielded keeps the items   *)
(* next returned.                                                          *)
(***************************************************************************)
\* Implementers for the iterators: lists of two kinds of item, and of items
\* that a wrong implementation counts and does not return.
IterDescs ==
    {RenderPassDescOf(a, p, d) :
        a \in SeqsUpTo({LayoutAttachmentDescription("R8G8B8A8Unorm", 1),
                        LayoutAttachmentDescription("D16Unorm", 4), Absent}, MaxAttachments),
        p \in SeqsUpTo({EmptyPass,
                        LayoutPassDescription(<<<<0, ColorAttachmentOptimal>>>>, None,
                                              <<>>, <<>>, <<>>),
                        Absent}, MaxSubpasses),
        d \in SeqsUpTo({LayoutPassDependencyDescription(0, 1),
                        LayoutPassDependencyDescription(1, 0), Absent}, MaxDependencies)}

\* The last call panicked: the caller makes no further call.
Panicked == last # NoCall /\ IsPanic(last.result)

InitIter ==
    /\ desc \in IterDescs
    /\ handles = {}
    /\ pending = [op |-> "iterate", args |-> <<>>]
    /\ last = NoCall
    /\ iter = NoIter
    /\ yielded = <<>>

Attachments ==
    /\ iter = NoIter
    /\ iter' = [kind |-> "attachments", num |-> 0]
    /\ last' = Call("attachments", <<>>, Ok(iter'))
    /\ UNCHANGED <<desc, handles, pending, yielded>>

Subpasses ==
    /\ iter = NoIter
    /\ iter' = [kind |-> "subpasses", num |-> 0]
    /\ last' = Call("subpasses", <<>>, Ok(iter'))
    /\ UNCHANGED <<desc, handles, pending, yielded>>

Dependencies ==
    /\ iter = NoIter
    /\ iter' = [kind |-> "dependencies", num |-> 0]
    /\ last' = Call("dependencies", <<>>, Ok(iter'))
    /\ UNCHANGED <<desc, handles, pending, yielded>>

\* One call of next: the position moves, the item is handed out.
IterStep(op, r) ==
    /\ iter' = [iter EXCEPT !.num = r.num]
    /\ yielded' = IF IsSome(r.item) THEN Append(yielded, r.item.val) ELSE yielded
    /\ last' = Call(op, <<iter.num>>, r.item)
    /\ UNCHANGED <<desc, handles, pending>>

RenderPassDescAttachmentsNext ==
    /\ iter.kind = "attachments"
    /\ ~Panicked
    /\ IterStep("RenderPassDescAttachments::next", AttachmentsNext(desc, iter.num))

RenderPassDescSubpassesNext ==
    /\ iter.kind = "subpasses"
    /\ ~Panicked
    /\ IterStep("RenderPassDescSubpasses::next", SubpassesNext(desc, iter.num))

RenderPassDescDependenciesNext ==
    /\ iter.kind = "dependencies"
    /\ ~Panicked
    /\ IterStep("RenderPassDescDependencies::next", DependenciesNext(desc, iter.num))

NextIter ==
    \/ Attachments
    \/ Subpasses
    \/ Dependencies
    \/ RenderPassDescAttachmentsNext
    \/ RenderPassDescSubpassesNext
    \/ RenderPassDescDependenciesNext

SpecIter == InitIter /\ [][NextIter]_vars

(***************************************************************************)
(* The compatibility checks as operations: the caller holds a description  *)
(* and the arguments of one check (pending), and makes the call.           *)
(***************************************************************************)
MaxElements == 2

\* Location ranges start..end over the color slots and one location more.
LocationRanges ==
    {[start |-> a, end |-> b] : a \in 0..1, b \in 0..(MaxColor + 1)}

\* A ShaderInterfaceDef, as far as the check reads it: the location range
\* of each of its elements.
Interfaces == SeqsUpTo({[location |-> r] : r \in LocationRanges}, MaxElements)

\* Color lists of every length, over an attachment that exists in some of
\* the descriptions and one that exists in none.
InterfacePasses ==
    {LayoutPassDescription(c, None, <<>>, <<>>, <<>>) :
        c \in SeqsUpTo({<<0, ColorAttachmentOptimal>>,
                        <<MaxAttachments, ColorAttachmentOptimal>>}, MaxColor)}

InterfaceDescs ==
    {RenderPassDescOf(a, p, <<>>) :
        a \in SeqsUpTo({LayoutAttachmentDescription("R8G8B8A8Unorm", 1)}, MaxAttachments),
        p \in PassLists(InterfacePasses)}

\* Subpasses with resolve attachments, over color attachments of every
\* sample count.
ResolvePasses ==
    {LayoutPassDescription(c, None, <<>>, r, <<>>) :
        c \in SeqsUpTo({<<0, ColorAttachmentOptimal>>}, 1),
        r \in SeqsUpTo({<<1, ColorAttachmentOptimal>>}, 2)}

ResolveDescs ==
    {RenderPassDescOf(a, p, <<>>) :
        a \in SeqsUpTo({LayoutAttachmentDescription("R8G8B8A8Unorm", n) : n \in SampleCounts},
                       MaxAttachments),
        p \in PassLists(ResolvePasses)}

\* The render passes a description is compared with: itself, and render
\* passes without subpasses over every list of attachments.
OtherDescs(D) ==
    {D} \cup
    {RenderPassDescOf(a, <<>>, <<>>) :
        a \in SeqsUpTo({LayoutAttachmentDescription(f, n) :
                           f \in {"R8G8B8A8Unorm", "D16Unorm"}, n \in SampleCounts},
                       MaxAttachments)}

PendingCalls(D) ==
    {[op |-> "RenderPassCompatible::is_compatible_with", args |-> <<o>>] : o \in OtherDescs(D)}
    \cup {[op |-> "RenderPassSubpassInterface::is_compatible_with", args |-> <<s, i>>] :
              s \in SubpassIds, i \in Interfaces}

InitCompat ==
    /\ desc \in InterfaceDescs \cup ResolveDescs
    /\ handles = {}
    /\ pending \in PendingCalls(desc)
    /\ last = NoCall
    /\ iter = NoIter
    /\ yielded = <<>>

RenderPassIsCompatibleWith ==
    /\ pending.op = "RenderPassCompatible::is_compatible_with"
    /\ last' = Call(pending.op, pending.args,
                    render_pass_is_compatible_with(desc, pending.args[1]))
    /\ UNCHANGED <<desc, handles, pending, iter, yielded>>

SubpassIsCompatibleWith ==
    /\ pending.op = "RenderPassSubpassInterface::is_compatible_with"
    /\ last' = Call(pending.op, pending.args,
                    subpass_is_compatible_with(desc, pending.args[1], pending.args[2]))
    /\ UNCHANGED <<desc, handles, pending, iter, yielded>>

NextCompat ==
    \/ RenderPassIsCompatibleWith
    \/ SubpassIsCompatibleWith

SpecCompat == InitCompat /\ [][NextCompat]_vars

(***************************************************************************)
(* A pointer to a description used as a description: the caller holds a    *)
(* value of a type T: SafeDeref whose target implements RenderPassDesc,    *)
(* and the arguments of one call of a required method, of a derived query  *)
(* or of a compatibility check (pending), and makes the call on it.        *)
(***************************************************************************)
DerefPasses ==
    {LayoutPassDescription(c, d, <<>>, <<>>, <<>>) :
        c \in SeqsUpTo({<<0, ColorAttachmentOptimal>>}, 1),
        d \in {None} \cup {Some(<<1, l>>) : l \in DepthStencilLayouts}}

DerefTargets ==
    {RenderPassDescOf(a, p, d) :
        a \in SeqsUpTo({LayoutAttachmentDescription("R8G8B8A8Unorm", 1),
                        LayoutAttachmentDescription("D24Unorm_S8Uint", 4)}, MaxAttachments),
        p \in PassLists(DerefPasses),
        d \in SeqsUpTo({LayoutPassDependencyDescription(0, 1)}, MaxDependencies)}

\* A pointer to a description, and a pointer to such a pointer.
DerefDescs ==
    {DerefOf(D) : D \in DerefTargets} \cup {DerefOf(DerefOf(D)) : D \in DerefTargets}

DerefCalls(D) ==
    {[op |-> m, args |-> <<>>] : m \in {"num_attachments", "num_subpasses", "num_dependencies"}}
    \cup {[op |-> "attachment", args |-> <<n>>] : n \in 0..MaxAttachments}
    \cup {[op |-> "subpass", args |-> <<n>>] : n \in 0..MaxSubpasses}
    \cup {[op |-> "dependency", args |-> <<n>>] : n \in 0..MaxDependencies}
    \cup {[op |-> q, args |-> <<s>>] : q \in DerivedQueries, s \in SubpassIds}
    \cup {[op |-> "RenderPassCompatible::is_compatible_with", args |-> <<o>>] :
              o \in {D, D.target, RenderPassDescOf(<<>>, <<>>, <<>>)}}
    \cup {[op |-> "RenderPassSubpassInterface::is_compatible_with", args |-> <<s, i>>] :
              s \in SubpassIds,
              i \in SeqsUpTo({[location |-> [start |-> 0, end |-> b]] : b \in 1..2}, 1)}

InitDeref ==
    /\ desc \in DerefDescs
    /\ handles = {}
    /\ pending \in DerefCalls(desc)
    /\ last = NoCall
    /\ iter = NoIter
    /\ yielded = <<>>

CallNumAttachments ==
    /\ pending.op = "num_attachments"
    /\ last' = Call(pending.op, pending.args, Ok(num_attachments(desc)))
    /\ UNCHANGED <<desc, handles, pending, iter, yielded>>

CallAttachment ==
    /\ pending.op = "attachment"
    /\ last' = Call(pending.op, pending.args, attachment(desc, pending.args[1]))
    /\ UNCHANGED <<desc, handles, pending, iter, yielded>>

CallNumSubpasses ==
    /\ pending.op = "num_subpasses"
    /\ last' = Call(pending.op, pending.args, Ok(num_subpasses(desc)))
    /\ UNCHANGED <<desc, handles, pending, iter, yielded>>

CallSubpass ==
    /\ pending.op = "subpass"
    /\ last' = Call(pending.op, pending.args, subpass(desc, pending.args[1]))
    /\ UNCHANGED <<desc, handles, pending, iter, yielded>>

CallNumDependencies ==
    /\ pending.op = "num_dependencies"
    /\ last' = Call(pending.op, pending.args, Ok(num_dependencies(desc)))
    /\ UNCHANGED <<desc, handles, pending, iter, yielded>>

CallDependency ==
    /\ pending.op = "dependency"
    /\ last' = Call(pending.op, pending.args, dependency(desc, pending.args[1]))
    /\ UNCHANGED <<desc, handles, pending, iter, yielded>>

NextDeref ==
    \/ CallNumAttachments
    \/ CallAttachment
    \/ CallNumSubpasses
    \/ CallSubpass
    \/ CallNumDependencies
    \/ CallDependency
    \/ NextDesc
    \/ NextCompat

SpecDeref == InitDeref /\ [][NextDeref]_vars

(***************************************************************************)
(* What the claims say of the derived queries, read off the description    *)
(* itself and not through the queries.                                     *)
(***************************************************************************)
\* The queries that read the attachment of the depth/stencil slot.
DepthStencilQueries ==
    {"has_depth_stencil_attachment", "has_depth", "has_writable_depth", "has_stencil",
     "has_writable_stencil"}

InRange(s) == s < Len(desc.subpasses)

PassAt(s) == desc.subpasses[s + 1]

HasSlot(s) == PassAt(s).depth_stencil.tag = "Some"

SlotAttachment(s) == PassAt(s).depth_stencil.val[1]

SlotLayout(s) == PassAt(s).depth_stencil.val[2]

AttachmentExists(a) == a < Len(desc.attachments)

FormatClassAt(a) == ty(desc.attachments[a + 1].format)

\* The slot refers to an attachment that exists and has a depth and/or
\* stencil format.
SlotSound(s) ==
    /\ AttachmentExists(SlotAttachment(s))
    /\ FormatClassAt(SlotAttachment(s)) \in {"Depth", "Stencil", "DepthStencil"}

First(r) == IF IsSome(r) THEN Some(r.val[1]) ELSE r

Second(r) == IF IsSome(r) THEN Some(r.val[2]) ELSE r

\* C2 as stated: every derived query returns None for a subpass number that
\* is out of range, and every one but num_samples returns Some for one that
\* is in range, whatever the description.
C2_AsStated ==
    last.op \in DerivedQueries =>
        LET s == last.args[1]
        IN  /\ ~InRange(s) => last.result = None
            /\ (InRange(s) /\ last.op # "num_samples") => IsSome(last.result)

\* C2 as amended: None out of range; in range, num_color_attachments returns
\* Some, and the five queries of the depth/stencil slot return Some when the
\* subpass has no slot or the slot refers to an existing attachment of a
\* depth/stencil format.  When it does not, they panic, except
\* has_writable_depth and has_writable_stencil on a read-only layout, which
\* return Some(false) without reading the attachment.
C2_NoneIffOutOfRange ==
    last.op \in DerivedQueries =>
        LET s == last.args[1]
        IN  /\ ~InRange(s) => last.result = None
            /\ (InRange(s) /\ last.op = "num_color_attachments") => IsSome(last.result)
            /\ (InRange(s) /\ last.op \in DepthStencilQueries) =>
                    IF ~HasSlot(s) \/ SlotSound(s) THEN IsSome(last.result)
                    ELSE IF /\ last.op \in {"has_writable_depth", "has_writable_stencil"}
                            /\ SlotLayout(s) = DepthStencilReadOnlyOptimal
                         THEN last.result = Some(FALSE)
                         ELSE IsPanic(last.result)

\* A query of the last subpass number but one past the end, on a description
\* that has subpasses, returned None.
C2_Witness ==
    /\ last.op = "has_writable_stencil"
    /\ Len(desc.subpasses) > 0
    /\ last.args[1] = Len(desc.subpasses)
    /\ last.result = None

\* C5: in range, has_depth_stencil_attachment is (false, false) without a
\* depth/stencil slot and otherwise follows the format class of the slot's
\* attachment; has_depth and has_stencil are its first and second component
\* (and fail where it fails).
C5_DepthStencilPair ==
    /\ (last.op = "has_depth_stencil_attachment" /\ InRange(last.args[1])) =>
        LET s == last.args[1]
        IN  /\ ~HasSlot(s) => last.result = Some(<<FALSE, FALSE>>)
            /\ (HasSlot(s) /\ AttachmentExists(SlotAttachment(s))) =>
                LET class == FormatClassAt(SlotAttachment(s))
                IN  /\ class = "Depth" => last.result = Some(<<TRUE, FALSE>>)
                    /\ class = "Stencil" => last.result = Some(<<FALSE, TRUE>>)
                    /\ class = "DepthStencil" => last.result = Some(<<TRUE, TRUE>>)
    /\ (last.op = "has_depth" /\ InRange(last.args[1])) =>
        last.result = First(has_depth_stencil_attachment(desc, last.args[1]))
    /\ (last.op = "has_stencil" /\ InRange(last.args[1])) =>
        last.result = Second(has_depth_stencil_attachment(desc, last.args[1]))

\* has_stencil answered for a subpass whose slot is a stencil-only attachment.
C5_Witness ==
    /\ last.op = "has_stencil"
    /\ InRange(last.args[1])
    /\ HasSlot(last.args[1])
    /\ AttachmentExists(SlotAttachment(last.args[1]))
    /\ FormatClassAt(SlotAttachment(last.args[1])) = "Stencil"
    /\ last.result = Some(TRUE)

\* C6: in range, has_writable_depth and has_writable_stencil are Some(false)
\* when the layout of the depth/stencil slot is DepthStencilReadOnlyOptimal,
\* whatever the attachment, and otherwise what has_depth and has_stencil
\* return.
C6_WritableFollowsLayout ==
    /\ (last.op = "has_writable_depth" /\ InRange(last.args[1])) =>
        LET s == last.args[1]
        IN  IF HasSlot(s) /\ SlotLayout(s) = DepthStencilReadOnlyOptimal
            THEN last.result = Some(FALSE)
            ELSE last.result = has_depth(desc, s)
    /\ (last.op = "has_writable_stencil" /\ InRange(last.args[1])) =>
        LET s == last.args[1]
        IN  IF HasSlot(s) /\ SlotLayout(s) = DepthStencilReadOnlyOptimal
            THEN last.result = Some(FALSE)
            ELSE last.result = has_stencil(desc, s)

\* The scenario of the specification: a depth-stencil attachment in the
\* read-only layout has depth, but no writable depth.
C6_Witness ==
    /\ last.op = "has_writable_depth"
    /\ InRange(last.args[1])
    /\ HasSlot(last.args[1])
    /\ SlotLayout(last.args[1]) = DepthStencilReadOnlyOptimal
    /\ AttachmentExists(SlotAttachment(last.args[1]))
    /\ FormatClassAt(SlotAttachment(last.args[1])) = "DepthStencil"
    /\ has_depth(desc, last.args[1]) = Some(TRUE)
    /\ last.result = Some(FALSE)

\* C7 as stated: in range, num_samples is the sample count of the attachment
\* of the first color entry if there is a color entry, else that of the
\* depth/stencil attachment, and None exactly when the subpass has neither.
C7_AsStated ==
    (last.op = "num_samples" /\ InRange(last.args[1])) =>
        LET p == PassAt(last.args[1])
            color == p.color_attachments
        IN  /\ (color # <<>> /\ AttachmentExists(color[1][1])) =>
                    last.result = Some(desc.attachments[color[1][1] + 1].samples)
            /\ (color = <<>> /\ IsSome(p.depth_stencil)
                    /\ AttachmentExists(p.depth_stencil.val[1])) =>
                    last.result = Some(desc.attachments[p.depth_stencil.val[1] + 1].samples)
            /\ last.result = None <=> (color = <<>> /\ ~IsSome(p.depth_stencil))

\* The first reference num_samples reads in the subpass: the first color
\* entry, or the depth/stencil slot of a subpass without color entries.
FirstRead(p) ==
    IF p.color_attachments # <<>> THEN Some(p.color_attachments[1])
    ELSE p.depth_stencil

\* C11 as stated: a derived query that reads a reference to an attachment
\* that does not exist fails; num_samples on the first reference of the
\* subpass and the five depth/stencil queries on its depth/stencil slot
\* never answer with an ordinary value.
C11_AsStated ==
    /\ (last.op = "num_samples" /\ InRange(last.args[1])) =>
        LET r == FirstRead(PassAt(last.args[1]))
        IN  (IsSome(r) /\ ~AttachmentExists(r.val[1])) => IsPanic(last.result)
    /\ (last.op \in DepthStencilQueries /\ InRange(last.args[1])) =>
        LET s == last.args[1]
        IN  (HasSlot(s) /\ ~AttachmentExists(SlotAttachment(s))) => IsPanic(last.result)

\* C17: a depth or stencil that is writable is there, and the writable
\* query has a result wherever the query of presence has one: it does not
\* fail where presence answers.
C17_WritableImpliesPresent ==
    /\ last.op = "has_writable_depth" =>
        LET present == has_depth(desc, last.args[1])
        IN  /\ last.result = Some(TRUE) => present = Some(TRUE)
            /\ ~IsPanic(present) => ~IsPanic(last.result)
            /\ IsSome(present) => IsSome(last.result)
    /\ last.op = "has_writable_stencil" =>
        LET present == has_stencil(desc, last.args[1])
        IN  /\ last.result = Some(TRUE) => present = Some(TRUE)
            /\ ~IsPanic(present) => ~IsPanic(last.result)
            /\ IsSome(present) => IsSome(last.result)
    /\ last.op = "has_depth" =>
        LET writable == has_writable_depth(desc, last.args[1])
        IN  /\ writable = Some(TRUE) => last.result = Some(TRUE)
            /\ IsSome(last.result) => IsSome(writable)
    /\ last.op = "has_stencil" =>
        LET writable == has_writable_stencil(desc, last.args[1])
        IN  /\ writable = Some(TRUE) => last.result = Some(TRUE)
            /\ IsSome(last.result) => IsSome(writable)

\* A writable stencil: the slot of the subpass is a stencil-only attachment
\* in the writable layout, which has no depth.
C17_Witness ==
    /\ last.op = "has_writable_stencil"
    /\ InRange(last.args[1])
    /\ HasSlot(last.args[1])
    /\ SlotLayout(last.args[1]) = DepthStencilAttachmentOptimal
    /\ last.result = Some(TRUE)
    /\ has_stencil(desc, last.args[1]) = Some(TRUE)
    /\ has_writable_depth(desc, last.args[1]) = Some(FALSE)

(***************************************************************************)
(* What the claims say of the Subpass handle.                              *)
(***************************************************************************)
\* C1: Subpass::from returns a handle exactly for the numbers below
\* num_subpasses(); no handle exists for any other number, and none at all
\* for a render pass without subpasses.
C1_FromIffInRange ==
    /\ last.op = "from" => (IsSome(last.result) <=> last.args[1] < Len(desc.subpasses))
    /\ \A h \in handles : h.subpass_id < Len(desc.subpasses)
    /\ Len(desc.subpasses) = 0 => handles = {}

\* from() refused the number one past the last subpass of a render pass
\* that has subpasses, and left no handle behind.
C1_Witness ==
    /\ last.op = "from"
    /\ Len(desc.subpasses) > 0
    /\ last.args[1] = Len(desc.subpasses)
    /\ last.result = None
    /\ handles = {}

\* C8: the handle from(D, i) reports index() = i and render_pass() = D, and
\* converts into the pair (D, i); what index(), render_pass() and into()
\* return of a kept handle is what from() was given to build it.
C8_RoundTrip ==
    /\ (last.op = "from" /\ IsSome(last.result)) =>
        /\ Subpass_index(last.result.val) = last.args[1]
        /\ Subpass_render_pass(last.result.val) = desc
        /\ Subpass_into(last.result.val) = <<desc, last.args[1]>>
    /\ last.op = "Subpass::index" =>
        Subpass_from(desc, last.result.val) = Some(last.args[1])
    /\ last.op = "Subpass::render_pass" =>
        /\ last.result = Ok(desc)
        /\ Subpass_from(last.result.val, last.args[1].subpass_id) = Some(last.args[1])
    /\ last.op = "Subpass::into" =>
        /\ last.result.val[1] = desc
        /\ Subpass_from(last.result.val[1], last.result.val[2]) = Some(last.args[1])

\* The handle of the second subpass was converted into its pair.
C8_Witness ==
    /\ last.op = "Subpass::into"
    /\ last.result = Ok(<<desc, 1>>)
    /\ Len(desc.subpasses) = 2

\* C9: has_color_or_depth_stencil_attachment is true exactly when the
\* subpass has a color attachment or its depth/stencil pair is not
\* (false, false), and false for a subpass with input, resolve or preserve
\* attachments only.
C9_ColorOrDepthStencil ==
    last.op = "Subpass::has_color_or_depth_stencil_attachment" =>
        LET s == last.args[1].subpass_id
            p == PassAt(s)
            pair == has_depth_stencil_attachment(desc, s)
        IN  /\ last.result = Ok(TRUE) <=>
                \/ Len(p.color_attachments) >= 1
                \/ (IsSome(pair) /\ pair.val # <<FALSE, FALSE>>)
            /\ last.result = Ok(FALSE) <=>
                /\ Len(p.color_attachments) = 0
                /\ pair = Some(<<FALSE, FALSE>>)
            /\ (p.color_attachments = <<>> /\ ~IsSome(p.depth_stencil)) =>
                last.result = Ok(FALSE)

\* A subpass with input, resolve and preserve attachments only: false.
C9_Witness ==
    /\ last.op = "Subpass::has_color_or_depth_stencil_attachment"
    /\ LET p == PassAt(last.args[1].subpass_id)
       IN  /\ p.color_attachments = <<>>
           /\ ~IsSome(p.depth_stencil)
           /\ p.input_attachments # <<>>
           /\ p.resolve_attachments # <<>>
           /\ p.preserve_attachments # <<>>
    /\ last.result = Ok(FALSE)

\* The methods of the handle that ask the description.
HandleQueries ==
    {"Subpass::num_color_attachments", "Subpass::has_depth", "Subpass::has_writable_depth",
     "Subpass::has_stencil", "Subpass::has_writable_stencil",
     "Subpass::has_color_or_depth_stencil_attachment", "Subpass::num_samples"}

\* What the method op of the handle h returns.
MethodOf(op, h) ==
    CASE op = "Subpass::num_color_attachments" -> Subpass_num_color_attachments(h)
      [] op = "Subpass::has_depth" -> Subpass_has_depth(h)
      [] op = "Subpass::has_writable_depth" -> Subpass_has_writable_depth(h)
      [] op = "Subpass::has_stencil" -> Subpass_has_stencil(h)
      [] op = "Subpass::has_writable_stencil" -> Subpass_has_writable_stencil(h)
      [] op = "Subpass::has_color_or_depth_stencil_attachment" ->
            Subpass_has_color_or_depth_stencil_attachment(h)
      [] op = "Subpass::num_samples" -> Subpass_num_samples(h)

\* The queries of the description D about the subpass s that op stands on.
QueriesOf(op, D, s) ==
    CASE op = "Subpass::num_color_attachments" -> <<num_color_attachments(D, s)>>
      [] op = "Subpass::has_depth" -> <<has_depth(D, s)>>
      [] op = "Subpass::has_writable_depth" -> <<has_writable_depth(D, s)>>
      [] op = "Subpass::has_stencil" -> <<has_stencil(D, s)>>
      [] op = "Subpass::has_writable_stencil" -> <<has_writable_stencil(D, s)>>
      [] op = "Subpass::has_color_or_depth_stencil_attachment" ->
            <<num_color_attachments(D, s), has_depth_stencil_attachment(D, s)>>
      [] op = "Subpass::num_samples" -> <<>>

\* What op has to return for the subpass s of D, given that the queries it
\* stands on have a result.
ExpectedOf(op, D, s) ==
    LET q == QueriesOf(op, D, s)
    IN  CASE op = "Subpass::num_samples" -> num_samples(D, s)
          [] op = "Subpass::has_color_or_depth_stencil_attachment" ->
                Ok(q[1].val >= 1 \/ q[2].val # <<FALSE, FALSE>>)
          [] OTHER -> Ok(q[1].val)

\* The handle h answers op with the query result of its description for
\* its subpass, and no query it stands on is without a result.
AnswersAsDescription(op, h, answer) ==
    /\ \A i \in 1..Len(QueriesOf(op, desc, h.subpass_id)) :
            IsSome(QueriesOf(op, desc, h.subpass_id)[i])
    /\ ~IsPanic(answer)
    /\ answer = ExpectedOf(op, desc, h.subpass_id)

\* C14: over a well-formed description, whatever handles were built, copied
\* and asked before, every handle is a handle of the description for a
\* subpass number below num_subpasses(), and every method of it returns the
\* query result of the description for that number, never failing on an
\* absent result.  The value depends on the description and the number
\* only, and neither changes: a repeated call returns the same value.
C14_HandleInvariant ==
    WellFormed(desc) =>
        /\ \A h \in handles :
                /\ h.render_pass = desc
                /\ h.subpass_id < num_subpasses(desc)
                /\ \A op \in HandleQueries : AnswersAsDescription(op, h, MethodOf(op, h))
        /\ last.op \in HandleQueries =>
                AnswersAsDescription(last.op, last.args[1], last.result)
        /\ last.op = "Subpass::clone" => last.result = Ok(last.args[1])

\* The handle of the second subpass, kept after other calls, was asked for
\* its samples: those of its color attachment, four.
C14_Witness ==
    /\ WellFormed(desc)
    /\ last.op = "Subpass::num_samples"
    /\ last.args[1].subpass_id = 1
    /\ last.args[1] \in handles
    /\ PassAt(1).color_attachments # <<>>
    /\ last.result = Some(4)

\* C16 as stated: num_samples of a handle is None exactly when its
\* has_color_or_depth_stencil_attachment is false.
C16_AsStated ==
    /\ last.op = "Subpass::num_samples" =>
        (last.result = None <=>
            Subpass_has_color_or_depth_stencil_attachment(last.args[1]) = Ok(FALSE))
    /\ last.op = "Subpass::has_color_or_depth_stencil_attachment" =>
        (last.result = Ok(FALSE) <=> Subpass_num_samples(last.args[1]) = None)

(***************************************************************************)
(* What the claims say of the compatibility checks.                        *)
(***************************************************************************)
RenderPassCheck == "RenderPassCompatible::is_compatible_with"

InterfaceCheck == "RenderPassSubpassInterface::is_compatible_with"

\* C3 as stated: two render passes are compatible exactly when they have
\* the same number of attachments and, position by position, attachments of
\* equal format and equal sample count.
C3_AsStated ==
    last.op = RenderPassCheck =>
        LET A == desc.attachments
            B == last.args[1].attachments
        IN  last.result =
                Ok(/\ Len(A) = Len(B)
                   /\ \A k \in 1..Len(A) :
                        k <= Len(B) => /\ A[k].format = B[k].format
                                       /\ A[k].samples = B[k].samples)

\* Some location of some element of the interface has no color slot among n.
LocationWithoutSlot(interface, n) ==
    \E e \in 1..Len(interface) :
        \E l \in interface[e].location.start..(interface[e].location.end - 1) : l >= n

\* C4: over a description whose subpasses refer to existing attachments
\* only, the check against a shader interface is false when the subpass is
\* out of range or some location of some element is not below the number of
\* color attachments of the subpass, and true otherwise.
C4_InterfaceCompatible ==
    (last.op = InterfaceCheck /\ RefsExist(desc)) =>
        LET s == last.args[1]
            interface == last.args[2]
        IN  last.result =
                Ok(~(\/ ~InRange(s)
                     \/ LocationWithoutSlot(interface, Len(PassAt(s).color_attachments))))

\* A subpass with a color attachment, and an interface whose first element
\* has its slot and whose second has none: false.
C4_Witness ==
    /\ last.op = InterfaceCheck
    /\ RefsExist(desc)
    /\ InRange(last.args[1])
    /\ Len(PassAt(last.args[1]).color_attachments) = 1
    /\ last.args[2] = <<[location |-> [start |-> 0, end |-> 1]],
                        [location |-> [start |-> 1, end |-> 2]]>>
    /\ last.result = Ok(FALSE)

\* The subpass breaks the rules of resolve_attachments: not empty, and of
\* another length than color_attachments, or with a resolve attachment of a
\* sample count other than 1, or with a color attachment of one sample.
BreaksResolveRules(D, p) ==
    /\ p.resolve_attachments # <<>>
    /\ \/ Len(p.resolve_attachments) # Len(p.color_attachments)
       \/ \E i \in 1..Len(p.resolve_attachments) :
            /\ p.resolve_attachments[i][1] < Len(D.attachments)
            /\ D.attachments[p.resolve_attachments[i][1] + 1].samples # 1
       \/ \E i \in 1..Len(p.color_attachments) :
            /\ p.color_attachments[i][1] < Len(D.attachments)
            /\ D.attachments[p.color_attachments[i][1] + 1].samples <= 1

\* C10 as stated: a description with a subpass that breaks the rules of
\* resolve_attachments does not pass a check that looks at it: not the
\* check against another render pass, and not the check of that subpass
\* against a shader interface.
C10_AsStated ==
    /\ (/\ last.op = RenderPassCheck
        /\ \E k \in 1..Len(desc.subpasses) : BreaksResolveRules(desc, desc.subpasses[k]))
            => last.result # Ok(TRUE)
    /\ (/\ last.op = InterfaceCheck
        /\ InRange(last.args[1])
        /\ BreaksResolveRules(desc, PassAt(last.args[1])))
            => last.result # Ok(TRUE)

\* C13: a render pass is compatible with itself.
C13_Reflexive ==
    (last.op = RenderPassCheck /\ last.args[1] = desc) => last.result = Ok(TRUE)

\* A render pass with attachments and subpasses was compared with itself.
C13_Witness ==
    /\ last.op = RenderPassCheck
    /\ last.args[1] = desc
    /\ Len(desc.attachments) > 0
    /\ Len(desc.subpasses) > 0
    /\ last.result = Ok(TRUE)

(***************************************************************************)
(* What the claims say of the iterators.                                   *)
(***************************************************************************)
NextOps ==
    {"RenderPassDescAttachments::next", "RenderPassDescSubpasses::next",
     "RenderPassDescDependencies::next"}

\* The list the iterator runs over, as the description holds it.
ListOf(kind) ==
    CASE kind = "attachments" -> desc.attachments
      [] kind = "subpasses" -> desc.subpasses
      [] kind = "dependencies" -> desc.dependencies

\* C12: an iterator over n items never moves past n; as long as it did not
\* fail it has returned the items 0 .. num-1 in their order; a call of next
\* at a position below n returns the item of that position and moves one
\* on, or panics when the accessor has no item there; a call at n returns
\* None, after all n items, and leaves the position where it is.
C12_IteratorsInOrder ==
    iter # NoIter =>
        LET list == ListOf(iter.kind)
            n == Len(list)
        IN  /\ iter.num <= n
            /\ ~Panicked => yielded = SubSeq(list, 1, iter.num)
            /\ last.op \in NextOps =>
                LET at == last.args[1]
                IN  /\ last.result = None <=> at >= n
                    /\ last.result = None => (iter.num = n /\ yielded = list)
                    /\ IsPanic(last.result) <=> (at < n /\ list[at + 1] = Absent)
                    /\ IsSome(last.result) =>
                            /\ last.result.val = list[at + 1]
                            /\ iter.num = at + 1
                            /\ yielded[Len(yielded)] = list[at + 1]

\* The iterator of the subpasses returned two different subpasses, in the
\* order of the description, and then None.
C12_Witness ==
    /\ iter.kind = "subpasses"
    /\ last.op = "RenderPassDescSubpasses::next"
    /\ last.result = None
    /\ Len(yielded) = 2
    /\ yielded[1] # yielded[2]
    /\ yielded = desc.subpasses

(***************************************************************************)
(* What the claims say of a pointer to a description.                      *)
(***************************************************************************)
\* What the call op with the arguments args returns on the implementer D.
ResultOn(D, op, args) ==
    CASE op = "num_attachments" -> Ok(num_attachments(D))
      [] op = "attachment" -> attachment(D, args[1])
      [] op = "num_subpasses" -> Ok(num_subpasses(D))
      [] op = "subpass" -> subpass(D, args[1])
      [] op = "num_dependencies" -> Ok(num_dependencies(D))
      [] op = "dependency" -> dependency(D, args[1])
      [] op = "num_color_attachments" -> num_color_attachments(D, args[1])
      [] op = "num_samples" -> num_samples(D, args[1])
      [] op = "has_depth_stencil_attachment" -> has_depth_stencil_attachment(D, args[1])
      [] op = "has_depth" -> has_depth(D, args[1])
      [] op = "has_writable_depth" -> has_writable_depth(D, args[1])
      [] op = "has_stencil" -> has_stencil(D, args[1])
      [] op = "has_writable_stencil" -> has_writable_stencil(D, args[1])
      [] op = RenderPassCheck -> render_pass_is_compatible_with(D, args[1])
      [] op = InterfaceCheck -> subpass_is_compatible_with(D, args[1], args[2])

\* C15: every required method, every derived query and both compatibility
\* checks return on a pointer to a description what they return, for the
\* same arguments, on the description it points to.
C15_Delegation ==
    (IsDeref(desc) /\ last # NoCall) =>
        last.result = ResultOn(desc.target, last.op, last.args)

\* A derived query through two pointers: the samples of the second subpass.
C15_Witness ==
    /\ IsDeref(desc)
    /\ IsDeref(desc.target)
    /\ last.op = "num_samples"
    /\ last.args = <<1>>
    /\ last.result = Some(4)

====
